---- MODULE Spec2Model ----
(***************************************************************************)
(* Model of post_reels.py: the Instagram Reel uploader.                    *)
(*                                                                         *)
(* Python strings are TLA+ strings (handled with Len, SubSeq and \o).      *)
(* An Optional value (None or a string) is a record [some, val].           *)
(* A parsed JSON object is a record that lists the keys it has.            *)
(***************************************************************************)
EXTENDS Integers, Sequences, FiniteSets, TLC

VARIABLES
    ACCESS_TOKEN,   \* os.getenv("ACCESS_TOKEN")
    IG_USER_ID,     \* os.getenv("IG_USER_ID")
    APP_SECRET,     \* os.getenv("APP_SECRET")
    video_url,      \* args.video_url
    pc,             \* position of the process in the module / in main()
    state,          \* lifecycle state of the run
    exit_code,      \* process exit code, -1 while running
    vid_url,        \* main: normalized URL
    ok, why,        \* main: result of check_video_url_public
    creation,       \* main: response of create_reel
    creation_id,    \* main: creation.get("id")
    status,         \* main: last response of get_status
    code,           \* main: upper-cased status code of the last poll
    backoff,        \* main: current sleep interval
    waited,         \* main: accumulated sleep
    pub,            \* main: response of publish_reel
    media_id,       \* main: pub.get("id")
    link,           \* main: response of get_permalink
    requests,       \* history: the requests sent to the Graph API, in order
    sleeps,         \* history: the intervals passed to time.sleep, in order
    resp,           \* history: the last HTTP response received from the Graph API
    probes,         \* history: the requests check_video_url_public sent, in order
    arg,            \* a function called on its own: its argument
    ret             \* a function called on its own: the values it returned, in order

vars == <<ACCESS_TOKEN, IG_USER_ID, APP_SECRET, video_url, pc, state, exit_code,
          vid_url, ok, why, creation, creation_id, status, code, backoff, waited,
          pub, media_id, link, requests, sleeps, resp, probes, arg, ret>>

-----------------------------------------------------------------------------
(* Python values *)

None == [some |-> FALSE, val |-> ""]
Some(v) == [some |-> TRUE, val |-> v]

\* Python truthiness of an Optional string: None and "" are falsy
Truthy(o) == o.some /\ o.val # ""

\* x or "" for an Optional string x
OrEmpty(o) == IF Truthy(o) THEN o.val ELSE ""

\* a parsed JSON object: the keys it has and the values of the keys main reads
Dict(keys, id, sc) ==
    [keys |-> keys, id |-> id, status_code |-> sc, http_status |-> 0, excerpt_len |-> 0]

\* a local variable of main that has not been assigned yet
Unset == Dict({"<unset>"}, "", "")

\* d.get(k) for the keys "id" and "status_code"
Get(d, k) ==
    IF k \notin d.keys THEN None
    ELSE IF k = "id" THEN Some(d.id) ELSE Some(d.status_code)

Min(a, b) == IF a < b THEN a ELSE b

Last(s) == s[Len(s)]

-----------------------------------------------------------------------------
(* Strings *)

LowerLetters == "abcdefghijklmnopqrstuvwxyz"
UpperLetters == "ABCDEFGHIJKLMNOPQRSTUVWXYZ"

Char(s, i) == SubSeq(s, i, i)

\* the upper-case letter of each lower-case letter
UpperOf ==
    [c \in {Char(LowerLetters, i) : i \in 1..Len(LowerLetters)} |->
        Char(UpperLetters, CHOOSE i \in 1..Len(LowerLetters) : Char(LowerLetters, i) = c)]

UpperChar(c) == IF c \in DOMAIN UpperOf THEN UpperOf[c] ELSE c

\* str.upper()
RECURSIVE upper(_)
upper(s) ==
    IF s = "" THEN "" ELSE UpperChar(Char(s, 1)) \o upper(SubSeq(s, 2, Len(s)))

\* sub in s
Contains(sub, s) ==
    \E i \in 1..(Len(s) - Len(sub) + 1) : SubSeq(s, i, i + Len(sub) - 1) = sub

\* s.split("/")
RECURSIVE SplitFrom(_, _, _)
SplitFrom(s, i, cur) ==
    IF i > Len(s) THEN <<cur>>
    ELSE IF Char(s, i) = "/" THEN <<cur>> \o SplitFrom(s, i + 1, "")
    ELSE SplitFrom(s, i + 1, cur \o Char(s, i))

split(s) == SplitFrom(s, 1, "")

\* "/".join(parts)
RECURSIVE join(_)
join(parts) ==
    IF Len(parts) = 0 THEN ""
    ELSE IF Len(parts) = 1 THEN parts[1]
    ELSE parts[1] \o "/" \o join(Tail(parts))

\* parts[a:b] with 0-based a, b (Python slice, clipped to the list)
Slice(parts, a, b) == SubSeq(parts, a + 1, Min(b, Len(parts)))

\* parts.index(x), 0-based; -1 stands for ValueError
index(parts, x) ==
    IF \E i \in 1..Len(parts) : parts[i] = x
    THEN (CHOOSE i \in 1..Len(parts) : parts[i] = x /\ \A j \in 1..(i - 1) : parts[j] # x) - 1
    ELSE -1

-----------------------------------------------------------------------------
(* Configuration read when the module is loaded *)

GRAPH == "https://graph.facebook.com/v23.0"

\* hmac.new(key, msg, sha256).hexdigest(): a non-empty digest determined by key and msg
HmacSha256Hex(key, msg) == "hmac-sha256(" \o key \o "," \o msg \o ")"

appsecret_proof(secret, token) ==
    IF ~Truthy(secret) THEN None ELSE Some(HmacSha256Hex(secret.val, token.val))

\* the query or form parameters of a request: the names sent and the auth values
params_with_auth(secret, token, extra) ==
    LET proof == appsecret_proof(secret, token) IN
    [keys            |-> {"access_token"}
                         \cup (IF Truthy(proof) THEN {"appsecret_proof"} ELSE {})
                         \cup extra,
     access_token    |-> token,
     appsecret_proof |-> IF Truthy(proof) THEN proof ELSE None]

-----------------------------------------------------------------------------
(* HTTP responses of the Graph API *)

\* the call raised (connection error, timeout): no response
RaisedResponse ==
    [kind |-> "raise", status_code |-> 0, text_len |-> 0, body |-> Dict({}, "", "")]

\* a response whose body is the JSON object body
JsonResponse(http, body) ==
    [kind |-> "json", status_code |-> http, text_len |-> 0, body |-> body]

\* a response whose body is not JSON and is len characters long
TextResponse(http, len) ==
    [kind |-> "text", status_code |-> http, text_len |-> len, body |-> Dict({}, "", "")]

\* no response received yet
NoResponse ==
    [op |-> "", kind |-> "none", status_code |-> 0, text_len |-> 0, body |-> Dict({}, "", "")]

\* the response r as received by the operation op
Received(op, r) ==
    [op |-> op, kind |-> r.kind, status_code |-> r.status_code, text_len |-> r.text_len,
     body |-> r.body]

ExcerptLen == 500

\* the result of a client function: the value returned, or raised = TRUE
Returned(d) == [raised |-> FALSE, value |-> d]
Raised == [raised |-> TRUE, value |-> Unset]

safe_json(r) ==
    IF r.kind = "json" THEN Returned(r.body)
    ELSE Returned([keys |-> {"error", "http_status"}, id |-> "", status_code |-> "",
                   http_status |-> r.status_code,
                   excerpt_len |-> Min(r.text_len, ExcerptLen)])

\* resp.json() without a guard: raises when the body is not JSON
raw_json(r) == IF r.kind = "json" THEN Returned(r.body) ELSE Raised

-----------------------------------------------------------------------------
(* Remote Job Client: the request each function sends and the value it returns *)

create_reel_request(secret, token, user, url) ==
    [op |-> "createJob", via |-> "SESSION", method |-> "POST",
     url |-> GRAPH \o "/" \o user.val \o "/media", arg |-> url,
     params |-> params_with_auth(secret, token,
                    {"media_type", "caption", "video_url", "share_to_feed"})]

create_reel(r) == IF r.kind = "raise" THEN Raised ELSE safe_json(r)

get_status_request(secret, token, id) ==
    [op |-> "getStatus", via |-> "requests", method |-> "GET",
     url |-> GRAPH \o "/" \o id, arg |-> id,
     params |-> [keys |-> {"fields", "access_token"}, access_token |-> token,
                 appsecret_proof |-> None]]

get_status(r) == IF r.kind = "raise" THEN Raised ELSE raw_json(r)

publish_reel_request(secret, token, user, id) ==
    [op |-> "publish", via |-> "SESSION", method |-> "POST",
     url |-> GRAPH \o "/" \o user.val \o "/media_publish", arg |-> id,
     params |-> params_with_auth(secret, token, {"creation_id"})]

publish_reel(r) == IF r.kind = "raise" THEN Raised ELSE safe_json(r)

get_permalink_request(secret, token, id) ==
    [op |-> "resolveReference", via |-> "SESSION", method |-> "GET",
     url |-> GRAPH \o "/" \o id, arg |-> id,
     params |-> params_with_auth(secret, token, {"fields"})]

get_permalink(r) == IF r.kind = "raise" THEN Raised ELSE safe_json(r)

-----------------------------------------------------------------------------
(* Resource Locator Normalizer *)

RawHost == "https://raw.githubusercontent.com/"

\* parts[n] with a 0-based n is parts[n + 1]; an index past the end raises
\* IndexError, which the except clause turns into "return url"
normalize_github_raw(url) ==
    IF Contains("github.com", url) /\ Contains("/raw/", url)
    THEN LET parts == split(url)
             idx   == index(parts, "raw")
         IN  IF Len(parts) < 5 \/ idx = -1 THEN url
             ELSE LET user == parts[4]
                      repo == parts[5]
                  IN  IF Slice(parts, idx + 1, idx + 3) = <<"refs", "heads">>
                      THEN IF idx + 3 >= Len(parts) THEN url
                           ELSE RawHost \o user \o "/" \o repo \o "/" \o parts[idx + 4]
                                \o "/" \o join(Slice(parts, idx + 4, Len(parts)))
                      ELSE IF idx + 1 >= Len(parts) THEN url
                           ELSE RawHost \o user \o "/" \o repo \o "/" \o parts[idx + 2]
                                \o "/" \o join(Slice(parts, idx + 2, Len(parts)))
    ELSE url

-----------------------------------------------------------------------------
(* Resource Reachability Prober *)

\* SESSION.head / SESSION.get raised
ProbeRaised == [kind |-> "raise", status_code |-> 0, content_type |-> None]

\* a response with an HTTP status and an optional Content-Type header
ProbeResponse(http, ctype) == [kind |-> "resp", status_code |-> http, content_type |-> ctype]

\* r.headers.get("Content-Type", "")
ContentType(r) == IF r.content_type.some THEN r.content_type.val ELSE ""

\* a faulty variant of LooksLikeVideo: the generic binary type is not accepted
LooksLikeVideo_VideoOnly(ctype) == Contains("video", ctype)

LooksLikeVideo(ctype) == Contains("video", ctype) \/ Contains("octet-stream", ctype)

\* g.raise_for_status() raises for 4xx and 5xx
RaisesForStatus(g) == g.status_code >= 400 /\ g.status_code < 600

\* the requests check_video_url_public sends: the HEAD, and the GET when the HEAD
\* answered below 400 without a video content type
probe_requests(url, head) ==
    IF head.kind = "resp" /\ head.status_code < 400 /\ ~LooksLikeVideo(ContentType(head))
    THEN <<[method |-> "HEAD", url |-> url], [method |-> "GET", url |-> url]>>
    ELSE <<[method |-> "HEAD", url |-> url]>>

check_video_url_public(url, head, get) ==
    IF head.kind = "raise"
    THEN [ok |-> FALSE, why |-> "HEAD request failed"]
    ELSE IF head.status_code >= 400
    THEN [ok |-> FALSE, why |-> "URL returned HTTP " \o ToString(head.status_code)]
    ELSE IF ~LooksLikeVideo(ContentType(head))
    THEN IF get.kind = "raise" \/ RaisesForStatus(get)
         THEN [ok |-> FALSE, why |-> "Could not validate video content-type"]
         ELSE IF ~LooksLikeVideo(ContentType(get))
         THEN [ok |-> FALSE,
               why |-> "Unexpected Content-Type: "
                       \o (IF ContentType(get) # "" THEN ContentType(get) ELSE "N/A")]
         ELSE [ok |-> TRUE, why |-> "OK"]
    ELSE [ok |-> TRUE, why |-> "OK"]

-----------------------------------------------------------------------------
(* The environment: command line, configuration and the answers of the network *)

VideoUrls ==
    {"https://github.com/user/repo/raw/refs/heads/main/file.mp4",
     "http://example.com/v.mp4"}

Tokens == {None, Some("tok")}
UserIds == {None, Some(""), Some("1784")}
Secrets == {None, Some(""), Some("s3cret")}

ContentTypes == {None, Some("video/mp4"), Some("application/octet-stream"), Some("text/html")}

HeadResponses ==
    {ProbeRaised} \cup {ProbeResponse(h, c) : h \in {200, 399, 400, 404}, c \in ContentTypes}

GetResponses ==
    {ProbeRaised} \cup {ProbeResponse(h, c) : h \in {200, 404, 500}, c \in ContentTypes}

\* bodies that are not JSON: an empty one, and one longer than the excerpt kept
TextResponses == {TextResponse(h, n) : h \in {200, 502}, n \in {0, ExcerptLen + 100}}

CreateBodies ==
    {Dict({"id"}, "123", ""), Dict({"id"}, "", ""), Dict({}, "", ""),
     Dict({"error"}, "", ""), Dict({"error", "id"}, "123", "")}

StatusCodes ==
    {"FINISHED", "finished", "ERROR", "error", "ERROR_UPLOADING", "Error_Uploading",
     "IN_PROGRESS", "PUBLISHED", "EXPIRED", ""}

StatusBodies ==
    {Dict({"status_code", "status"}, "", c) : c \in StatusCodes}
    \cup {Dict({"error", "status_code"}, "", c) : c \in {"FINISHED", "IN_PROGRESS"}}
    \cup {Dict({"status"}, "", ""), Dict({"error"}, "", "")}

PublishBodies ==
    {Dict({"id"}, "456", ""), Dict({"id"}, "", ""), Dict({}, "", ""),
     Dict({"error"}, "", ""), Dict({"error", "id"}, "456", "")}

PermalinkBodies == {Dict({"permalink", "id"}, "456", ""), Dict({"error"}, "", "")}

\* every way a call to the Graph API can end, for a set of JSON bodies
ApiResponses(bodies) ==
    {RaisedResponse} \cup TextResponses
    \cup {JsonResponse(IF "error" \in b.keys THEN 400 ELSE 200, b) : b \in bodies}

-----------------------------------------------------------------------------
(* The run *)

InitialBackoff == 5
max_backoff == 60
max_wait_sec == 15 * 60

\* a faulty variant of NextBackoff: the cap is forgotten
NextBackoff_Uncapped(b) == (b * 3) \div 2

\* backoff = min(max_backoff, int(backoff * 1.5))
NextBackoff(b) == Min(max_backoff, (b * 3) \div 2)

\* lines 15-21: the module aborts when a required setting is missing
ConfigMissing(token, user) == ~Truthy(token) \/ ~Truthy(user)

\* the locals of main and the histories before main runs
NothingDone ==
    /\ vid_url = ""
    /\ ok = FALSE
    /\ why = ""
    /\ creation = Unset
    /\ creation_id = None
    /\ status = Unset
    /\ code = ""
    /\ backoff = 0
    /\ waited = 0
    /\ pub = Unset
    /\ media_id = None
    /\ link = Unset
    /\ requests = <<>>
    /\ sleeps = <<>>
    /\ resp = NoResponse
    /\ probes = <<>>

Init ==
    /\ ACCESS_TOKEN \in Tokens
    /\ IG_USER_ID \in UserIds
    /\ APP_SECRET \in Secrets
    /\ video_url \in VideoUrls
    /\ pc = IF ConfigMissing(ACCESS_TOKEN, IG_USER_ID) THEN "exit" ELSE "main"
    /\ state = IF ConfigMissing(ACCESS_TOKEN, IG_USER_ID) THEN "ABORTED" ELSE "INIT"
    /\ exit_code = IF ConfigMissing(ACCESS_TOKEN, IG_USER_ID) THEN 1 ELSE -1
    /\ NothingDone
    /\ arg = <<>>
    /\ ret = <<>>

\* where the run goes next: a position in main, or "exit" with an exit code
Goto(p, st) == [pc |-> p, state |-> st, exit_code |-> -1]

\* sys.exit(ec), or the end of main (ec = 0), in lifecycle state st
Exit(st, ec) == [pc |-> "exit", state |-> st, exit_code |-> ec]

\* an exception nobody catches: traceback and exit code 1
Crash == Exit("CRASHED", 1)

\* the run moves on as the outcome o says
Move(o) == pc' = o.pc /\ state' = o.state /\ exit_code' = o.exit_code

\* a faulty variant of probe_outcome: the result of the probe is not looked at
probe_outcome_Ignored(res) == Goto("create", "CREATED")

\* lines 156-158
probe_outcome(res) ==
    IF ~res.ok THEN Exit("ABORTED", 1) ELSE Goto("create", "CREATED")

\* a faulty variant of create_outcome: an answer with an id is accepted without looking
\* for an error envelope
create_outcome_IdWins(res) ==
    IF res.raised THEN Crash
    ELSE IF ~Truthy(Get(res.value, "id")) THEN Exit("FAILED", 1)
    ELSE Goto("poll", "PROCESSING")

\* lines 161-170
create_outcome(res) ==
    IF res.raised THEN Crash
    ELSE IF "error" \in res.value.keys THEN Exit("FAILED", 1)
    ELSE IF ~Truthy(Get(res.value, "id")) THEN Exit("FAILED", 1)
    ELSE Goto("poll", "PROCESSING")

\* code = str(status.get("status_code") or "").upper()
status_code_of(d) == upper(OrEmpty(Get(d, "status_code")))

\* a faulty variant of poll_outcome: IN_PROGRESS ends the polling as FINISHED does
poll_outcome_EarlyBreak(res) ==
    IF res.raised THEN "raise"
    ELSE IF "error" \in res.value.keys THEN "error"
    ELSE IF status_code_of(res.value) \in {"FINISHED", "IN_PROGRESS"} THEN "break"
    ELSE IF status_code_of(res.value) \in {"ERROR", "ERROR_UPLOADING"} THEN "failed"
    ELSE "sleep"

\* a faulty variant of poll_outcome: only IN_PROGRESS and the empty code keep the loop going
poll_outcome_UnknownFails(res) ==
    IF res.raised THEN "raise"
    ELSE IF "error" \in res.value.keys THEN "error"
    ELSE IF status_code_of(res.value) = "FINISHED" THEN "break"
    ELSE IF status_code_of(res.value) \notin {"IN_PROGRESS", ""} THEN "failed"
    ELSE "sleep"

\* a faulty variant of poll_outcome: ERROR_UPLOADING is taken for a transient state
poll_outcome_UploadErrorRetried(res) ==
    IF res.raised THEN "raise"
    ELSE IF "error" \in res.value.keys THEN "error"
    ELSE IF status_code_of(res.value) = "FINISHED" THEN "break"
    ELSE IF status_code_of(res.value) \in {"ERROR"} THEN "failed"
    ELSE "sleep"

\* a faulty variant of poll_outcome: the status code is read before the error envelope
poll_outcome_CodeFirst(res) ==
    IF res.raised THEN "raise"
    ELSE IF status_code_of(res.value) = "FINISHED" THEN "break"
    ELSE IF status_code_of(res.value) \in {"ERROR", "ERROR_UPLOADING"} THEN "failed"
    ELSE IF "error" \in res.value.keys THEN "error"
    ELSE "sleep"

\* lines 178-189: how the body of the loop ends for the response of get_status;
\* "sleep" is falling through to time.sleep
poll_outcome(res) ==
    IF res.raised THEN "raise"
    ELSE IF "error" \in res.value.keys THEN "error"
    ELSE IF status_code_of(res.value) = "FINISHED" THEN "break"
    ELSE IF status_code_of(res.value) \in {"ERROR", "ERROR_UPLOADING"} THEN "failed"
    ELSE "sleep"

\* a faulty variant of TimedOut: the ceiling is one backoff interval too high
TimedOut_Late(w) == w >= max_wait_sec + max_backoff

\* line 194
TimedOut(w) == w >= max_wait_sec

\* a faulty variant of publish_outcome: a rejected publish is tried again
publish_outcome_Retry(res) ==
    IF res.raised THEN Crash
    ELSE IF "error" \in res.value.keys THEN Goto("publish", "FINISHED")
    ELSE IF Truthy(Get(res.value, "id")) THEN Goto("permalink", "PUBLISHED")
    ELSE Exit("PUBLISHED", 0)

\* lines 199-211
publish_outcome(res) ==
    IF res.raised THEN Crash
    ELSE IF "error" \in res.value.keys THEN Exit("FAILED", 1)
    ELSE IF Truthy(Get(res.value, "id")) THEN Goto("permalink", "PUBLISHED")
    ELSE Exit("PUBLISHED", 0)

\* a faulty variant of permalink_outcome: a rejected permalink request fails the run
permalink_outcome_Fatal(res) ==
    IF res.raised THEN Crash
    ELSE IF "error" \in res.value.keys THEN Exit("FAILED", 1)
    ELSE Exit("PUBLISHED", 0)

\* lines 207-209
permalink_outcome(res) ==
    IF res.raised THEN Crash ELSE Exit("PUBLISHED", 0)

\* lines 152-158: normalize the URL and probe it
Start ==
    /\ pc = "main"
    /\ \E head \in HeadResponses, get \in GetResponses :
         LET url == normalize_github_raw(video_url)
             res == check_video_url_public(url, head, get)
         IN  /\ vid_url' = url
             /\ ok' = res.ok
             /\ why' = res.why
             /\ probes' = probe_requests(url, head)
             /\ Move(probe_outcome(res))
    /\ UNCHANGED <<ACCESS_TOKEN, IG_USER_ID, APP_SECRET, video_url, creation, creation_id,
                   status, code, backoff, waited, pub, media_id, link, requests, sleeps,
                   resp, arg, ret>>

\* lines 160-176: create the media container
Create ==
    /\ pc = "create"
    /\ \E r \in ApiResponses(CreateBodies) :
         LET res == create_reel(r)
             out == create_outcome(res)
         IN  /\ requests' = Append(requests,
                    create_reel_request(APP_SECRET, ACCESS_TOKEN, IG_USER_ID, vid_url))
             /\ resp' = Received("createJob", r)
             /\ creation' = IF res.raised THEN creation ELSE res.value
             /\ creation_id' =
                    IF res.raised \/ "error" \in res.value.keys THEN creation_id
                    ELSE Get(res.value, "id")
             /\ backoff' = IF out.pc = "poll" THEN InitialBackoff ELSE backoff
             /\ waited' = IF out.pc = "poll" THEN 0 ELSE waited
             /\ Move(out)
    /\ UNCHANGED <<ACCESS_TOKEN, IG_USER_ID, APP_SECRET, video_url, vid_url, ok, why,
                   probes, arg, ret,
                   status, code, pub, media_id, link, sleeps>>

\* lines 177-196: one iteration of the polling loop
Poll ==
    /\ pc = "poll"
    /\ \E r \in ApiResponses(StatusBodies) :
         LET res == get_status(r)
             end == poll_outcome(res)
         IN  /\ requests' = Append(requests,
                    get_status_request(APP_SECRET, ACCESS_TOKEN, creation_id.val))
             /\ resp' = Received("getStatus", r)
             /\ status' = IF end = "raise" THEN status ELSE res.value
             /\ code' = IF end \in {"raise", "error"} THEN code
                        ELSE status_code_of(res.value)
             /\ sleeps' = IF end = "sleep" THEN Append(sleeps, backoff) ELSE sleeps
             /\ waited' = IF end = "sleep" THEN waited + backoff ELSE waited
             /\ backoff' = IF end = "sleep" THEN NextBackoff(backoff) ELSE backoff
             /\ Move(CASE end = "raise" -> Crash
                       [] end \in {"error", "failed"} -> Exit("FAILED", 1)
                       [] end = "break" -> Goto("publish", "FINISHED")
                       [] end = "sleep" ->
                             IF TimedOut(waited + backoff) THEN Exit("TIMED_OUT", 1)
                             ELSE Goto("poll", "PROCESSING"))
    /\ UNCHANGED <<ACCESS_TOKEN, IG_USER_ID, APP_SECRET, video_url, vid_url, ok, why,
                   probes, arg, ret,
                   creation, creation_id, pub, media_id, link>>

\* lines 198-206 and 210-211: publish the finished container
Publish ==
    /\ pc = "publish"
    /\ \E r \in ApiResponses(PublishBodies) :
         LET res == publish_reel(r)
         IN  /\ requests' = Append(requests,
                    publish_reel_request(APP_SECRET, ACCESS_TOKEN, IG_USER_ID,
                                         creation_id.val))
             /\ resp' = Received("publish", r)
             /\ pub' = IF res.raised THEN pub ELSE res.value
             /\ media_id' =
                    IF res.raised \/ "error" \in res.value.keys THEN media_id
                    ELSE Get(res.value, "id")
             /\ Move(publish_outcome(res))
    /\ UNCHANGED <<ACCESS_TOKEN, IG_USER_ID, APP_SECRET, video_url, vid_url, ok, why,
                   probes, arg, ret,
                   creation, creation_id, status, code, backoff, waited, link, sleeps>>

\* lines 207-209: fetch the permalink of the published media
Permalink ==
    /\ pc = "permalink"
    /\ \E r \in ApiResponses(PermalinkBodies) :
         LET res == get_permalink(r)
         IN  /\ requests' = Append(requests,
                    get_permalink_request(APP_SECRET, ACCESS_TOKEN, media_id.val))
             /\ resp' = Received("resolveReference", r)
             /\ link' = IF res.raised THEN link ELSE res.value
             /\ Move(permalink_outcome(res))
    /\ UNCHANGED <<ACCESS_TOKEN, IG_USER_ID, APP_SECRET, video_url, vid_url, ok, why,
                   probes, arg, ret,
                   creation, creation_id, status, code, backoff, waited, pub, media_id,
                   sleeps>>

Next == Start \/ Create \/ Poll \/ Publish \/ Permalink

Spec == Init /\ [][Next]_vars

-----------------------------------------------------------------------------
(* The normalizer and the prober called on their own *)

\* the variables of main, which a function called on its own leaves alone
mainvars == <<ACCESS_TOKEN, IG_USER_ID, APP_SECRET, video_url, state, exit_code,
              vid_url, ok, why, creation, creation_id, status, code, backoff, waited,
              pub, media_id, link, requests, sleeps, resp>>

\* the module is loaded and main is not run
Loaded ==
    /\ ACCESS_TOKEN = Some("tok")
    /\ IG_USER_ID = Some("1784")
    /\ APP_SECRET = None
    /\ video_url = ""
    /\ state = "INIT"
    /\ exit_code = -1
    /\ NothingDone

\* the longest path, in segments, of the URLs given to the normalizer
MaxSegments == 6

NormHosts ==
    {"https://github.com", "https://gist.github.com", "https://example.com", "github.com"}

\* the names a path is made of; "refs/heads" is two segments
Segments == {"u", "raw", "refs/heads", "github.com"}

SegmentLists == UNION {[1..n -> Segments] : n \in 0..MaxSegments}

NormUrls ==
    {h \o (IF q = <<>> THEN "" ELSE "/" \o join(q)) : h \in NormHosts, q \in SegmentLists}

InitNorm ==
    /\ Loaded
    /\ pc = "normalize"
    /\ arg \in NormUrls
    /\ ret = <<>>

\* normalize_github_raw(arg)
Normalize ==
    /\ pc = "normalize"
    /\ ret' = <<normalize_github_raw(arg)>>
    /\ pc' = "normalized"
    /\ UNCHANGED <<mainvars, probes, arg>>

\* normalize_github_raw applied to what it returned
NormalizeAgain ==
    /\ pc = "normalized"
    /\ ret' = Append(ret, normalize_github_raw(ret[1]))
    /\ pc' = "renormalized"
    /\ UNCHANGED <<mainvars, probes, arg>>

NextNorm == Normalize \/ NormalizeAgain

SpecNorm == InitNorm /\ [][NextNorm]_vars

ProbeUrls == {"https://example.com/v.mp4", "http://example.com/v.mp4"}

InitProbe ==
    /\ Loaded
    /\ pc = "probe"
    /\ arg \in [url : ProbeUrls, head : HeadResponses, get : GetResponses]
    /\ ret = <<>>

\* check_video_url_public(arg.url) with the network answering arg.head and arg.get
Probe ==
    /\ pc = "probe"
    /\ ret' = <<check_video_url_public(arg.url, arg.head, arg.get)>>
    /\ probes' = probe_requests(arg.url, arg.head)
    /\ pc' = "probed"
    /\ UNCHANGED <<mainvars, arg>>

NextProbe == Probe

SpecProbe == InitProbe /\ [][NextProbe]_vars

-----------------------------------------------------------------------------
(* Properties *)

\* the positions in the request history of the requests of operation op
CallsOf(op) == {i \in DOMAIN requests : requests[i].op = op}

NumberOf(op) == Cardinality(CallsOf(op))

RECURSIVE Sum(_)
Sum(q) == IF q = <<>> THEN 0 ELSE q[1] + Sum(Tail(q))

\* the last thing received is a JSON answer to a status poll
PollAnswered == resp.op = "getStatus" /\ resp.kind = "json"

\* the status code of that answer as sent ("" when absent or empty)
SentCode == OrEmpty(Get(resp.body, "status_code"))

\* that answer carries an error envelope
SentError == "error" \in resp.body.keys

\* the run has ended and nothing follows: no request, no sleep
Over == pc = "exit" /\ ~ENABLED Next

\* a publish request directly follows a status poll of the same job
PublishFollowsPoll ==
    \A i \in CallsOf("publish") :
        /\ i > 1
        /\ requests[i - 1].op = "getStatus"
        /\ requests[i - 1].arg = requests[i].arg
        /\ requests[i].arg = creation_id.val

\* C1 as stated: publish is requested only after the last status poll of the same
\* job answered, without an error envelope, with the status code FINISHED, and
\* never once the run is FAILED or TIMED_OUT.
C1_AsStated ==
    /\ CallsOf("publish") # {} =>
          /\ PublishFollowsPoll
          /\ "error" \notin status.keys
          /\ Get(status, "status_code") = Some("FINISHED")
    /\ state = "TIMED_OUT" => CallsOf("publish") = {}
    /\ (state = "FAILED" /\ CallsOf("publish") # {}) => resp.op = "publish"

\* C1 amended: publish is requested only after the last status poll of the same job
\* answered, without an error envelope, with a status code that is FINISHED once
\* upper-cased; it is never requested before such an answer, and no request at all
\* is made once the run is FAILED or TIMED_OUT.
C1_PublishOnlyAfterFinished ==
    /\ [](CallsOf("publish") # {} =>
            /\ PublishFollowsPoll
            /\ "error" \notin status.keys
            /\ upper(OrEmpty(Get(status, "status_code"))) = "FINISHED"
            /\ code = "FINISHED")
    /\ [](pc = "publish" => PollAnswered /\ ~SentError /\ upper(SentCode) = "FINISHED")
    /\ [][(state \in {"FAILED", "TIMED_OUT"} => requests' = requests)]_vars

\* publish was requested after a poll answered "finished" in lower case
C1_Witness ==
    /\ CallsOf("publish") # {}
    /\ Get(status, "status_code") = Some("finished")
    /\ NumberOf("getStatus") > 1

\* the intervals the loop sleeps, in order: 5, 7, 10, 15, 22, 33, 49, 60, 60, ...
ExpectedInterval(n) ==
    IF n <= 7 THEN <<5, 7, 10, 15, 22, 33, 49>>[n] ELSE 60

\* C2: the n-th sleep lasts ExpectedInterval(n) seconds; each interval is
\* min(60, floor(1.5 * the one before)), never above 60 and never below the one
\* before; the next interval to sleep continues the sequence.
C2_BackoffSequence ==
    /\ \A n \in DOMAIN sleeps :
          /\ sleeps[n] = ExpectedInterval(n)
          /\ sleeps[n] <= 60
          /\ n > 1 => /\ sleeps[n] >= sleeps[n - 1]
                      /\ sleeps[n] = Min(60, (3 * sleeps[n - 1]) \div 2)
    /\ sleeps # <<>> => sleeps[1] = 5
    /\ pc = "poll" => backoff = ExpectedInterval(Len(sleeps) + 1)

\* the loop has slept past the point where the cap applies
C2_Witness == Len(sleeps) >= 10 /\ pc = "poll"

\* C3: waited is the sum of the intervals slept; once it is >= 900 the run is
\* TIMED_OUT with exit code 1 and sends nothing more, so no status poll is sent
\* with waited >= 900 and publish is never requested in a run that timed out.
C3_Ceiling ==
    /\ [](waited = Sum(sleeps))
    /\ [](waited >= 900 <=> state = "TIMED_OUT")
    /\ [](state = "TIMED_OUT" =>
            /\ pc = "exit" /\ exit_code = 1
            /\ CallsOf("publish") = {}
            /\ Last(requests).op = "getStatus")
    /\ [][(waited >= 900 => requests' = requests /\ sleeps' = sleeps)]_vars
    /\ [][(waited < 900 /\ waited' >= 900 => state' = "TIMED_OUT")]_vars

\* the run timed out
C3_Witness == state = "TIMED_OUT" /\ waited >= 900 /\ Len(sleeps) = 20

\* every poll so far was followed by a sleep
EveryPollSlept == Len(sleeps) = NumberOf("getStatus")

\* every poll but the last was followed by a sleep
LastPollDidNotSleep == Len(sleeps) = NumberOf("getStatus") - 1

\* C4 as stated: a poll answered FINISHED without an error envelope ends the
\* polling whatever the accumulated wait, and publish is the next request; an
\* answer with any other status code than FINISHED, ERROR, ERROR_UPLOADING is
\* followed by one sleep and the run goes on polling or times out.
C4_AsStated ==
    /\ (PollAnswered /\ ~SentError /\ SentCode = "FINISHED") =>
          state \in {"FINISHED"} /\ pc = "publish" /\ LastPollDidNotSleep
    /\ (PollAnswered /\ ~SentError
          /\ SentCode \notin {"FINISHED", "ERROR", "ERROR_UPLOADING"}) =>
          /\ EveryPollSlept
          /\ state \in {"PROCESSING", "TIMED_OUT"}

\* C4 amended: a poll answered, without an error envelope, with a status code that
\* is FINISHED once upper-cased ends the polling whatever the accumulated wait: no
\* sleep follows and the next request is publish. An answer whose upper-cased
\* status code is none of FINISHED, ERROR, ERROR_UPLOADING (an empty, absent or
\* unknown code included) is followed by one sleep, and then by another poll
\* unless the ceiling is reached.
C4_Polling ==
    /\ []((PollAnswered /\ ~SentError /\ upper(SentCode) = "FINISHED") =>
            state = "FINISHED" /\ pc = "publish" /\ LastPollDidNotSleep)
    /\ []((PollAnswered /\ ~SentError
            /\ upper(SentCode) \notin {"FINISHED", "ERROR", "ERROR_UPLOADING"}) =>
            /\ EveryPollSlept
            /\ waited < 900 => pc = "poll" /\ state = "PROCESSING"
            /\ waited >= 900 => pc = "exit" /\ state = "TIMED_OUT")
    /\ [][(pc = "publish" =>
            Last(requests').op = "publish" /\ Len(requests') = Len(requests) + 1
            /\ sleeps' = sleeps)]_vars
    /\ [][(pc = "poll" =>
            Last(requests').op = "getStatus" /\ Len(requests') = Len(requests) + 1)]_vars

\* the 20th poll, 861 seconds into the wait, is answered FINISHED and the run
\* goes on to publish
C4_Witness ==
    /\ PollAnswered /\ ~SentError /\ SentCode = "FINISHED"
    /\ pc = "publish"
    /\ waited > 800

\* C5: a poll answered with status code ERROR or ERROR_UPLOADING ends the run as
\* FAILED with exit code 1 at that poll: no sleep follows it, nothing more is
\* requested, and neither publish nor resolveReference was requested.
C5_ErrorCodesFail ==
    /\ []((PollAnswered /\ SentCode \in {"ERROR", "ERROR_UPLOADING"}) =>
            /\ state = "FAILED" /\ exit_code = 1 /\ Over
            /\ LastPollDidNotSleep
            /\ CallsOf("publish") = {} /\ CallsOf("resolveReference") = {})
    /\ [][((PollAnswered /\ SentCode \in {"ERROR", "ERROR_UPLOADING"}) =>
            requests' = requests /\ sleeps' = sleeps)]_vars

\* a poll after some sleeps is answered ERROR_UPLOADING and the run has failed
C5_Witness ==
    /\ PollAnswered /\ SentCode = "ERROR_UPLOADING" /\ ~SentError
    /\ state = "FAILED"
    /\ Len(sleeps) >= 2

\* createJob was answered with an error envelope or without an id
CreateRejected ==
    /\ resp.op = "createJob" /\ resp.kind # "raise"
    /\ "error" \in creation.keys \/ "id" \notin creation.keys

\* C6: when the answer to createJob carries an error envelope or has no id, the
\* run is FAILED with exit code 1 and createJob is the only request it ever
\* made: no poll, no publish, no resolveReference, no second createJob.
C6_CreateRejected ==
    /\ [](CreateRejected =>
            /\ state = "FAILED" /\ exit_code = 1 /\ Over
            /\ Len(requests) = 1 /\ requests[1].op = "createJob"
            /\ sleeps = <<>>)
    /\ [][(CreateRejected => requests' = requests)]_vars

\* createJob was answered with an error envelope that also carries an id
C6_Witness ==
    /\ CreateRejected
    /\ "error" \in creation.keys /\ "id" \in creation.keys
    /\ state = "FAILED"

\* the value the controller holds for the last response
Surfaced ==
    CASE resp.op = "createJob" -> creation
      [] resp.op = "getStatus" -> status
      [] resp.op = "publish" -> pub
      [] resp.op = "resolveReference" -> link
      [] OTHER -> Unset

\* C7: a response of any of the four operations whose body is not JSON reaches
\* the controller as an error envelope carrying the HTTP status and an excerpt of
\* at most 500 characters, and the run never ends in an unhandled exception.
C7_NonJsonSurfaced ==
    resp.kind = "text" =>
        /\ state # "CRASHED"
        /\ "error" \in Surfaced.keys
        /\ Surfaced.http_status = resp.status_code
        /\ Surfaced.excerpt_len = Min(resp.text_len, 500)

\* C8: with the shared secret configured every request carries the access token
\* and the signed proof; without it no request carries a proof.
C8_EveryRequestSigned ==
    \A i \in DOMAIN requests :
        /\ "access_token" \in requests[i].params.keys
        /\ Truthy(APP_SECRET) =>
              /\ "appsecret_proof" \in requests[i].params.keys
              /\ requests[i].params.appsecret_proof
                    = Some(HmacSha256Hex(APP_SECRET.val, ACCESS_TOKEN.val))
        /\ ~Truthy(APP_SECRET) => "appsecret_proof" \notin requests[i].params.keys

\* C9: createJob, publish and resolveReference are each requested at most once
\* in a run, and not again after an error envelope or an incomplete answer.
C9_AttemptOnce ==
    /\ [](/\ NumberOf("createJob") <= 1
          /\ NumberOf("publish") <= 1
          /\ NumberOf("resolveReference") <= 1)
    /\ [][((resp.op \in {"createJob", "publish", "resolveReference"}
            /\ ("error" \in Surfaced.keys \/ "id" \notin Surfaced.keys))
          => requests' = requests)]_vars

\* all three were requested, and the last one was answered with an error envelope
C9_Witness ==
    /\ NumberOf("createJob") = 1 /\ NumberOf("publish") = 1
    /\ NumberOf("resolveReference") = 1
    /\ resp.kind = "json" /\ "error" \in link.keys
    /\ pc = "exit"

\* C10: a poll answered with an error envelope ends the run as FAILED with exit
\* code 1 at that poll, whatever status code the answer carries: no sleep follows
\* it, nothing more is requested, and publish was not requested.
C10_StatusEnvelopeFails ==
    /\ []((PollAnswered /\ SentError) =>
            /\ state = "FAILED" /\ exit_code = 1 /\ Over
            /\ LastPollDidNotSleep
            /\ CallsOf("publish") = {})
    /\ [][((PollAnswered /\ SentError) => requests' = requests /\ sleeps' = sleeps)]_vars

\* a poll is answered with an error envelope that also says FINISHED
C10_Witness ==
    /\ PollAnswered /\ SentError /\ SentCode = "FINISHED"
    /\ state = "FAILED"

\* publish was answered (the call returned) without an error envelope
PublishAccepted == CallsOf("publish") # {} /\ pub # Unset /\ "error" \notin pub.keys

\* the reachability probe ran and said no
ProbeFailed == probes # <<>> /\ ~ok

\* C11: when the process has ended, its exit code is 0 exactly when publish was
\* requested and answered without an error envelope (with or without an id); it
\* is 1 in the states FAILED and TIMED_OUT and after a failed probe.
C11_ExitCode ==
    pc = "exit" =>
        /\ exit_code = 0 <=> PublishAccepted
        /\ state \in {"FAILED", "TIMED_OUT"} => exit_code = 1
        /\ ProbeFailed => exit_code = 1

\* C12: resolveReference is requested only right after publish was answered
\* without an error envelope and with a media id, for that id; when it is answered
\* with an error envelope the run still ends PUBLISHED with exit code 0, and
\* nothing is requested after it.
C12_PermalinkBestEffort ==
    /\ [](\A i \in CallsOf("resolveReference") :
            /\ i > 1 /\ requests[i - 1].op = "publish"
            /\ PublishAccepted /\ Truthy(Get(pub, "id"))
            /\ requests[i].arg = pub.id)
    /\ []((resp.op = "resolveReference" /\ resp.kind # "raise" /\ "error" \in link.keys) =>
            /\ state = "PUBLISHED" /\ exit_code = 0 /\ Over
            /\ NumberOf("createJob") = 1 /\ NumberOf("publish") = 1
            /\ NumberOf("resolveReference") = 1)
    /\ [][(resp.op = "resolveReference" => requests' = requests)]_vars

\* resolveReference was answered with an error envelope and the run ended with 0
C12_Witness ==
    /\ resp.op = "resolveReference" /\ resp.kind = "json" /\ "error" \in link.keys
    /\ pc = "exit" /\ exit_code = 0

\* C13: createJob is requested only after the probe of the normalized URL said
\* ok, and for exactly the URL that was probed; after a probe that said no the
\* process has exited with 1 and none of the four operations was requested.
C13_ProbeBeforeCreate ==
    /\ [](requests # <<>> =>
            /\ ok /\ probes # <<>>
            /\ requests[1].op = "createJob"
            /\ \A j \in DOMAIN probes :
                  /\ probes[j].url = requests[1].arg
                  /\ probes[j].url = normalize_github_raw(video_url))
    /\ [](ProbeFailed => pc = "exit" /\ exit_code = 1 /\ requests = <<>> /\ Over)
    /\ [][(ProbeFailed => requests' = requests)]_vars

\* createJob was requested for a URL that normalization had rewritten, after a
\* probe that needed the fallback GET
C13_Witness ==
    /\ CallsOf("createJob") # {}
    /\ requests[1].arg # video_url
    /\ Len(probes) = 2

\* urlparse(u).scheme == "https"
IsHttps(u) == SubSeq(u, 1, Len("https://")) = "https://"

\* C14: the prober says ok only for an https URL, and every URL submitted to
\* createJob is an https URL.
C14_HttpsOnly ==
    /\ ok => IsHttps(vid_url)
    /\ \A i \in CallsOf("createJob") : IsHttps(requests[i].arg)

\* a content type that indicates video or generic binary data
IndicatesVideo(o) ==
    o.some /\ (Contains("video", o.val) \/ Contains("octet-stream", o.val))

\* the HEAD was answered with a status below 400
HeadPassed(h) == h.kind = "resp" /\ h.status_code < 400

\* the fallback GET was answered with a status below 400
GetPassed(g) == g.kind = "resp" /\ g.status_code < 400

\* C15: the prober returns (TRUE, "OK") exactly when the HEAD is answered below
\* 400 and either its content type indicates video or octet-stream, or the
\* fallback GET succeeds with such a content type; otherwise it returns FALSE
\* with a reason, which carries the HEAD status when that is >= 400 and the
\* content type seen by the GET ("N/A" when absent) when that is the wrong one.
\* The GET is sent only when the HEAD passed without a video content type.
C15_ProberResult ==
    pc = "probed" =>
        LET h == arg.head
            g == arg.get
            r == ret[1]
        IN  /\ r.ok <=> /\ HeadPassed(h)
                        /\ \/ IndicatesVideo(h.content_type)
                           \/ GetPassed(g) /\ IndicatesVideo(g.content_type)
            /\ r.ok => r.why = "OK"
            /\ ~r.ok => r.why # "" /\ r.why # "OK"
            /\ (h.kind = "resp" /\ h.status_code >= 400) =>
                  Contains(ToString(h.status_code), r.why)
            /\ (HeadPassed(h) /\ ~IndicatesVideo(h.content_type)
                  /\ GetPassed(g) /\ ~IndicatesVideo(g.content_type)) =>
                  Contains(IF Truthy(g.content_type) THEN g.content_type.val ELSE "N/A",
                           r.why)
            /\ Len(probes) = 2 <=> (HeadPassed(h) /\ ~IndicatesVideo(h.content_type))

\* the HEAD named no content type and the fallback GET said octet-stream
C15_Witness ==
    /\ pc = "probed"
    /\ HeadPassed(arg.head) /\ ~arg.head.content_type.some
    /\ arg.get.content_type = Some("application/octet-stream")
    /\ ret[1].ok

\* the parts of a URL of the shape
\* https://github.com/<owner>/<repo>/raw/<branch>/<path...> or
\* https://github.com/<owner>/<repo>/raw/refs/heads/<branch>/<path...>,
\* with at least one path segment
OnGithub(p) == Len(p) >= 3 /\ p[1] = "https:" /\ p[2] = "" /\ p[3] = "github.com"

NestedForm(p) ==
    OnGithub(p) /\ Len(p) >= 10 /\ p[6] = "raw" /\ p[7] = "refs" /\ p[8] = "heads"

SimpleForm(p) ==
    OnGithub(p) /\ Len(p) >= 8 /\ p[6] = "raw" /\ ~(p[7] = "refs" /\ p[8] = "heads")

WebRawLink(u) == NestedForm(split(u)) \/ SimpleForm(split(u))

\* C16: normalizing the result of normalizing a web raw link returns it unchanged.
C16_Idempotent ==
    (pc = "renormalized" /\ WebRawLink(arg)) => ret[2] = ret[1]

\* the direct raw-content URL of a web raw link with the parts p
DirectUrl(p) ==
    IF NestedForm(p)
    THEN RawHost \o join(<<p[4], p[5], p[9]>> \o SubSeq(p, 10, Len(p)))
    ELSE RawHost \o join(<<p[4], p[5], p[7]>> \o SubSeq(p, 8, Len(p)))

\* C17: a web raw link of either form is rewritten to
\* https://raw.githubusercontent.com/<owner>/<repo>/<branch>/<path>, the branch of
\* the nested form being the segment after refs/heads.
C17_Rewrite ==
    (pc = "normalized" /\ WebRawLink(arg)) => ret[1] = DirectUrl(split(arg))

\* the URL matches the pattern the normalizer looks for
MatchesPattern(u) == Contains("github.com", u) /\ Contains("/raw/", u)

\* the number of segments of the path of a URL (what follows the host)
PathSegments(u) ==
    IF Contains("://", u) THEN Len(split(u)) - 3 ELSE Len(split(u)) - 1

\* C18: a URL that matches the pattern and has fewer than 5 path segments is
\* returned unchanged.
C18_TooShortUnchanged ==
    (pc = "normalized" /\ MatchesPattern(arg) /\ PathSegments(arg) < 5) => ret[1] = arg

\* C19: a URL that is not a web raw link into a repository on github.com is
\* returned unchanged.
C19_OthersUnchanged ==
    (pc = "normalized" /\ ~WebRawLink(arg)) => ret[1] = arg

\* every call to the Graph API so far returned
EveryCallReturned == resp.kind # "raise"

\* C20: when every remote call returns, a run that got to createJob ends in
\* PUBLISHED, FAILED or TIMED_OUT; at any time there is a next step or the run is
\* over, at most 20 status polls were sent and waited is at most 900 + 60.
C20_Terminates ==
    /\ (EveryCallReturned /\ requests # <<>> /\ pc = "exit") =>
          state \in {"PUBLISHED", "FAILED", "TIMED_OUT"}
    /\ pc = "exit" \/ ENABLED Next
    /\ NumberOf("getStatus") <= 20
    /\ waited <= 900 + 60

====
